---------------------------- MODULE Spec2Model ----------------------------
(***************************************************************************)
(* Model of the prevalence posterior estimator (src/js/prevalence.js,      *)
(* function posterior) and of the summary statistics of the chart page     *)
(* (summaryStats).                                                         *)
(*                                                                         *)
(* Numbers.  A JavaScript number is modelled as a pair <<num, den>>:       *)
(*   den > 0   the finite value num/den, in lowest terms;                  *)
(*   <<1,0>>   Infinity,   <<-1,0>>  -Infinity,   <<0,0>>  NaN.            *)
(* The special values follow IEEE-754 as JavaScript does (x/0, 0/0,        *)
(* Infinity-Infinity, comparisons with NaN are false).  Finite arithmetic  *)
(* is exact: rounding of doubles and the sign of zero are not modelled.    *)
(***************************************************************************)
EXTENDS Integers, Sequences, FiniteSets, TLC

(* ------------------------------ bounds --------------------------------- *)
\* largest Monte Carlo sample size N of a request
MaxN == 2
\* largest grid size M of a request
MaxM == 2
\* largest number n of subjects tested of a request
MaxCount == 2
\* longest density handed to summaryStats
MaxLen == 3
\* most passes of the rejection loop of one call, where they are recorded
MaxDraws == 3

(* ----------------------------- numbers --------------------------------- *)
\* The arithmetic is written as functions applied to their arguments, so
\* that each argument is evaluated once, as the operands of a JavaScript
\* expression are.
Abs(a) == IF a < 0 THEN -a ELSE a

Sgn(a) == IF a < 0 THEN -1 ELSE IF a > 0 THEN 1 ELSE 0

GCD[a \in Int, b \in Int] == IF b = 0 THEN a ELSE GCD[b, a % b]

\* the number num/den, den any integer (den = 0: an infinity or NaN)
NormF[num \in Int, den \in Int] ==
    IF den = 0 THEN <<Sgn(num), 0>>
    ELSE LET g == GCD[Abs(num), Abs(den)]
             s == IF den < 0 THEN -1 ELSE 1
         IN  <<(s * num) \div g, Abs(den) \div g>>

Norm(num, den) == NormF[num, den]

\* what a number is in the model
Number == Int \X Int

Num(a) == <<a, 1>>
Zero == <<0, 1>>
One == <<1, 1>>
NaN == <<0, 0>>
Infinity == <<1, 0>>

IsNaN(x) == x = NaN
IsFinite(x) == x[2] > 0

Neg(x) == <<-x[1], x[2]>>

AddF[x \in Number, y \in Number] ==
    IF x[2] = 0 /\ y[2] = 0
    THEN IF x = y THEN x ELSE NaN
    ELSE Norm(x[1] * y[2] + y[1] * x[2], x[2] * y[2])

Add(x, y) == AddF[x, y]

Sub(x, y) == AddF[x, Neg(y)]

MulF[x \in Number, y \in Number] == Norm(x[1] * y[1], x[2] * y[2])

Mul(x, y) == MulF[x, y]

DivF[x \in Number, y \in Number] ==
    LET s == IF y[1] < 0 THEN -1 ELSE 1
    IN  Norm(s * x[1] * y[2], x[2] * Abs(y[1]))

Div(x, y) == DivF[x, y]

\* x < y; false when either is NaN
LtF[x \in Number, y \in Number] ==
    /\ ~IsNaN(x)
    /\ ~IsNaN(y)
    /\ IF x[2] = 0 /\ y[2] = 0 THEN x[1] < y[1]
       ELSE x[1] * y[2] < y[1] * x[2]

Lt(x, y) == LtF[x, y]

Gt(x, y) == LtF[y, x]

\* x >= y; false when either is NaN
GeF[x \in Number, y \in Number] == ~IsNaN(x) /\ ~IsNaN(y) /\ ~LtF[x, y]

Ge(x, y) == GeF[x, y]

\* Math.pow(x, e) for an integer e >= 0; Math.pow(NaN, 0) is 1
PowF[x \in Number, e \in Int] == IF e <= 0 THEN One ELSE Mul(x, PowF[x, e - 1])

Pow(x, e) == PowF[x, e]

Factorial[m \in Int] == IF m <= 1 THEN 1 ELSE m * Factorial[m - 1]

Choose(m, r) == Factorial[m] \div (Factorial[r] * Factorial[m - r])

\* sum of f[lo] .. f[hi], added left to right
RECURSIVE SumRange(_, _, _)
SumRange(f, lo, hi) ==
    IF hi < lo THEN Zero ELSE Add(SumRange(f, lo, hi - 1), f[hi])

(* ----------------------- numerical library (jStat) --------------------- *)
\* values the beta sampler is observed to return: the ends and the middle
\* of [0,1]
SampleVals == {Zero, <<1, 2>>, One}

\* jStat.beta.sample(a, b): some number of [0,1] when both shape parameters
\* are positive; outside the domain of the distribution the result is
\* unspecified and may also be NaN
BetaSample(a, b) ==
    IF a > 0 /\ b > 0 THEN SampleVals ELSE SampleVals \cup {NaN}

\* 1 / jStat.betafn(a, b) for integers a, b >= 1
InvBetaFn(a, b) ==
    Factorial[a + b - 1] \div (Factorial[a - 1] * Factorial[b - 1])

\* jStat.beta.pdf(x, a, b): 0 outside [0,1], 1 for the uniform case,
\* x^(a-1) (1-x)^(b-1) / B(a,b) otherwise (B is undefined, and the result
\* NaN, unless a > 0 and b > 0)
BetaPdf(x, a, b) ==
    IF Gt(x, One) \/ Lt(x, Zero) THEN Zero
    ELSE IF a = 1 /\ b = 1 THEN One
    ELSE IF a <= 0 \/ b <= 0 THEN NaN
    ELSE Mul(Mul(Pow(x, a - 1), Pow(Sub(One, x), b - 1)), Num(InvBetaFn(a, b)))

\* jStat.ibeta(x, a, b), the regularized incomplete beta function I_x(a,b);
\* for integers a, b >= 1 it is the binomial tail
\*   sum_{m = a}^{a+b-1} C(a+b-1, m) x^m (1-x)^(a+b-1-m)
Ibeta(x, a, b) ==
    IF a <= 0 \/ b <= 0 THEN NaN
    ELSE IF Lt(x, Zero) \/ Gt(x, One) THEN Zero
    ELSE LET t == a + b - 1
             term == [m \in a..t |->
                        Mul(Num(Choose(t, m)),
                            Mul(Pow(x, m), Pow(Sub(One, x), t - m)))]
         IN  SumRange(term, a, t)

(* ------------------------------ requests ------------------------------- *)
\* default of the prior parameters a_u, b_u, a_v, b_v
DefaultPrior == 1

Request(n, k, n_u, k_u, n_v, k_v, N, M) ==
    [n |-> n, k |-> k, n_u |-> n_u, k_u |-> k_u, n_v |-> n_v, k_v |-> k_v,
     N |-> N, M |-> M,
     a_u |-> DefaultPrior, b_u |-> DefaultPrior,
     a_v |-> DefaultPrior, b_v |-> DefaultPrior]

\* validation counts <<n_u, k_u, n_v, k_v>>: well-formed, and malformed in
\* one count (k_u > n_u, k_v > n_v, a negative count)
GoodTrials == {<<1, 0, 1, 1>>}
BadTrials == {<<0, 2, 1, 1>>, <<1, 0, 0, 2>>, <<1, -1, 1, 1>>}

\* test counts <<n, k>>: every pair of the range, well-formed or not
AllCounts == (-1 .. MaxCount) \X (-1 .. MaxCount + 1)
GoodCounts == {c \in AllCounts : 0 <= c[2] /\ c[2] <= c[1]}

\* the requests posterior is called with: parseParams passes on whatever
\* numbers the form holds, so malformed counts reach it
Requests ==
    {Request(c[1], c[2], t[1], t[2], t[3], t[4], N, M) :
        c \in AllCounts, t \in GoodTrials, N \in 0 .. MaxN, M \in 0 .. MaxM}
    \cup
    {Request(c[1], c[2], t[1], t[2], t[3], t[4], N, M) :
        c \in GoodCounts, t \in BadTrials, N \in 0 .. MaxN, M \in 0 .. MaxM}

NoRequest == Request(0, 0, 0, 0, 0, 0, 0, 0)

\* the counts of a request are well-formed
ValidRequest(r) ==
    /\ r.n >= r.k /\ r.k >= 0
    /\ r.n_u >= r.k_u /\ r.k_u >= 0
    /\ r.n_v >= r.k_v /\ r.k_v >= 0

(* ------------------------------- state --------------------------------- *)
VARIABLES
    pc,        \* where posterior is: "idle", "sample", "grid", "inner", "done"
    req,       \* the argument of the running (or last) call
    us, vs, duvs,   \* the sample arrays
    i,         \* index of the sampling loop
    u, v,      \* the pair the rejection loop holds
    pdf, total, ct, \* the density, its compensated sum and compensation
    j,         \* index of the grid loop
    p_theta, cp,    \* inner compensated sum and compensation
    ii,        \* index of the inner loop
    result,    \* what the call handed to its caller: "none" or "pdf"
    earlier,   \* an earlier call of posterior has returned
    drawn,     \* the pairs the sampler has returned to the running call
    \* summaryStats
    spc,       \* where summaryStats is: "ready", "loop", "done"
    data, alpha,    \* its arguments
    cumsum,    \* the cumulative sums, with the leading 0
    si,        \* index of its loop
    lower, upper, median, mode, max,  \* its locals
    \* the grid loop body run by workers
    work,      \* of each worker: the grid index it holds (-1: none), its
               \* inner index, sum and compensation
    out        \* the output slots written so far, by grid index

pvars == <<pc, req, us, vs, duvs, i, u, v, pdf, total, ct, j, p_theta, cp,
           ii, result, earlier>>

svars == <<spc, data, alpha, cumsum, si, lower, upper, median, mode, max>>

wvars == <<work, out>>

\* what no step of Spec, LiveSpec changes
others == <<svars, drawn, wvars>>

vars == <<pvars, svars, drawn, wvars>>

InitPosterior ==
    /\ pc = "idle"
    /\ req = NoRequest
    /\ us = <<>> /\ vs = <<>> /\ duvs = <<>>
    /\ i = 0
    /\ u = Zero /\ v = Zero
    /\ pdf = <<>> /\ total = Zero /\ ct = Zero
    /\ j = 0
    /\ p_theta = Zero /\ cp = Zero
    /\ ii = 0
    /\ result = "none"
    /\ earlier = FALSE

MinusOne == <<-1, 1>>

InitStats ==
    /\ spc = "ready"
    /\ data = <<>>
    /\ alpha = One
    /\ cumsum = <<>>
    /\ si = 0
    /\ lower = MinusOne /\ upper = MinusOne /\ median = MinusOne
    /\ mode = MinusOne /\ max = MinusOne

\* the workers that share the grid
Workers == {"w1", "w2"}

InitWorkers ==
    /\ work = [w \in Workers |->
                  [j |-> -1, ii |-> 0, p_theta |-> Zero, cp |-> Zero]]
    /\ out = <<>>

Init == InitPosterior /\ InitStats /\ drawn = <<>> /\ InitWorkers

(* ------------------------------ posterior ------------------------------ *)
\* the Jacobian factor with Bv taken at v instead of 1-v
DuvComplementForgotten(su, sv, n, k) ==
    LET Bu == Ibeta(Sub(One, su), n - k + 1, k + 1)
        Bv == Ibeta(sv, n - k + 1, k + 1)
    IN  Div(Sub(sv, su), Sub(Bu, Bv))

\* the Jacobian factor of a stored pair
Duv(su, sv, n, k) ==
    LET Bu == Ibeta(Sub(One, su), n - k + 1, k + 1)
        Bv == Ibeta(Sub(One, sv), n - k + 1, k + 1)
    IN  Div(Sub(sv, su), Sub(Bu, Bv))

\* theta of grid index jj
Theta(jj, M) == Div(Num(jj), Num(M))

\* one step of the compensated sum: <<sum, compensation>> after adding x
KahanAdd(sum, comp, x) ==
    LET y == Sub(x, comp)
        t == Add(sum, y)
    IN  <<t, Sub(Sub(t, sum), y)>>

\* the loop test of the two loops over the samples, run once too often
SampleTestOffByOne(ix, N) == ix <= N

\* the loop test of the two loops over the samples
SampleTest(ix, N) == ix < N

\* the loop test of the grid loop
GridTestOffByOne(jj, M) == jj <= M + 1

GridTest(jj, M) == jj <= M

\* the loop test of the rejection loop
Rejected(cu, cv) == Ge(cu, cv)

\* the grid loop starts
EnterGrid ==
    /\ pdf' = <<>>
    /\ total' = Zero
    /\ ct' = Zero
    /\ j' = 0
    /\ pc' = "grid"

\* posterior entered with the sample arrays of the call before
CallKeepsSamples(r) ==
    /\ pc \in {"idle", "done"}
    /\ req' = r
    /\ UNCHANGED <<us, vs, duvs>>
    /\ i' = 0
    /\ u' = Zero /\ v' = Zero
    /\ pdf' = <<>> /\ total' = Zero /\ ct' = Zero
    /\ j' = 0
    /\ p_theta' = Zero /\ cp' = Zero
    /\ ii' = 0
    /\ result' = "none"
    /\ pc' = IF SampleTest(0, r.N) THEN "sample" ELSE "grid"
    /\ earlier' = (pc = "done")

\* posterior is entered: every local of the new activation is fresh; the
\* first iteration of the sampling loop starts with u = v = 0, or with
\* N = 0 the grid loop starts
Call(r) ==
    /\ pc \in {"idle", "done"}
    /\ req' = r
    /\ us' = <<>> /\ vs' = <<>> /\ duvs' = <<>>
    /\ i' = 0
    /\ u' = Zero /\ v' = Zero
    /\ pdf' = <<>> /\ total' = Zero /\ ct' = Zero
    /\ j' = 0
    /\ p_theta' = Zero /\ cp' = Zero
    /\ ii' = 0
    /\ result' = "none"
    /\ pc' = IF SampleTest(0, r.N) THEN "sample" ELSE "grid"
    /\ earlier' = (pc = "done")

\* one pass of the rejection loop: u and v are redrawn together
Draw ==
    /\ pc = "sample"
    /\ Rejected(u, v)
    /\ \E nu \in BetaSample(req.k_u + req.a_u, req.n_u - req.k_u + req.b_u),
          nv \in BetaSample(req.k_v + req.a_v, req.n_v - req.k_v + req.b_v) :
            u' = nu /\ v' = nv
    /\ UNCHANGED <<pc, req, us, vs, duvs, i, pdf, total, ct, j, p_theta, cp,
                   ii, result, earlier>>

\* the rejection loop is left: the pair and its Jacobian factor are stored,
\* and the next sample, or the grid loop, starts
Store ==
    /\ pc = "sample"
    /\ ~Rejected(u, v)
    /\ us' = Append(us, u)
    /\ vs' = Append(vs, v)
    /\ duvs' = Append(duvs, Duv(u, v, req.n, req.k))
    /\ i' = i + 1
    /\ u' = Zero /\ v' = Zero
    /\ IF SampleTest(i + 1, req.N)
       THEN UNCHANGED <<pc, pdf, total, ct, j>>
       ELSE EnterGrid
    /\ UNCHANGED <<req, p_theta, cp, ii, result, earlier>>

\* the sum and compensation a grid index starts with, had they been
\* declared outside the grid loop: those the index before left
ResetSumKept(old) == old

\* the sum and compensation a grid index starts with: both are declared, as
\* 0, in the body of the grid loop
ResetSum(old) == <<Zero, Zero>>

\* a grid index is begun: its sum and compensation start from 0
GridBegin ==
    /\ pc = "grid"
    /\ GridTest(j, req.M)
    /\ LET acc == ResetSum(<<p_theta, cp>>)
       IN  p_theta' = acc[1] /\ cp' = acc[2]
    /\ ii' = 0
    /\ pc' = "inner"
    /\ UNCHANGED <<req, us, vs, duvs, i, u, v, pdf, total, ct, j, result,
                   earlier>>

\* the summand f * duv of sample s at grid index jj
Summand(jj, s, r, sus, svs, sduvs) ==
    LET p == Add(sus[s], Mul(Theta(jj, r.M), Sub(svs[s], sus[s])))
        f == BetaPdf(p, r.k + 1, r.n - r.k + 1)
    IN  Mul(f, sduvs[s])

\* one sample is added to the sum of the grid index
Inner ==
    /\ pc = "inner"
    /\ SampleTest(ii, req.N)
    /\ LET acc == KahanAdd(p_theta, cp, Summand(j, ii + 1, req, us, vs, duvs))
       IN  p_theta' = acc[1] /\ cp' = acc[2]
    /\ ii' = ii + 1
    /\ UNCHANGED <<pc, req, us, vs, duvs, i, u, v, pdf, total, ct, j, result,
                   earlier>>

\* the grid index is done: its sum is pushed and added to total
GridEnd ==
    /\ pc = "inner"
    /\ ~SampleTest(ii, req.N)
    /\ pdf' = Append(pdf, p_theta)
    /\ LET acc == KahanAdd(total, ct, p_theta)
       IN  total' = acc[1] /\ ct' = acc[2]
    /\ j' = j + 1
    /\ pc' = "grid"
    /\ UNCHANGED <<req, us, vs, duvs, i, u, v, p_theta, cp, ii, result,
                   earlier>>

Max(a, b) == IF a < b THEN b ELSE a

\* the normalizing loop: total /= pdf.length, then pdf[jj] /= total for the
\* indices 0..M (a missing entry is undefined, and undefined / total is NaN;
\* an entry past M is left as it is)
Normalized(d, tot, M) ==
    LET mean == Div(tot, Num(Len(d)))
    IN  [jj \in 1 .. Max(Len(d), M + 1) |->
            IF jj > M + 1 THEN d[jj]
            ELSE IF jj > Len(d) THEN NaN
            ELSE Div(d[jj], mean)]

\* the grid loop is left: normalize and return
Return ==
    /\ pc = "grid"
    /\ ~GridTest(j, req.M)
    /\ total' = Div(total, Num(Len(pdf)))
    /\ pdf' = Normalized(pdf, total, req.M)
    /\ result' = "pdf"
    /\ pc' = "done"
    /\ UNCHANGED <<req, us, vs, duvs, i, u, v, ct, j, p_theta, cp, ii, earlier>>

\* the page calls posterior with the parameters of the form
Invoke ==
    /\ pc = "idle"
    /\ \E r \in Requests : Call(r)

Next ==
    \/ Invoke /\ UNCHANGED others
    \/ Draw /\ UNCHANGED others
    \/ Store /\ UNCHANGED others
    \/ GridBegin /\ UNCHANGED others
    \/ Inner /\ UNCHANGED others
    \/ GridEnd /\ UNCHANGED others
    \/ Return /\ UNCHANGED others

Spec == Init /\ [][Next]_vars

\* a step of the running call other than a pass of the rejection loop
Progress ==
    \/ Store /\ UNCHANGED others
    \/ GridBegin /\ UNCHANGED others
    \/ Inner /\ UNCHANGED others
    \/ GridEnd /\ UNCHANGED others
    \/ Return /\ UNCHANGED others

\* a pass of the rejection loop
Redraw == Draw /\ UNCHANGED others

\* a pass of the rejection loop that draws a pair the loop test lets go
AcceptingDraw == Draw /\ ~Rejected(u', v') /\ UNCHANGED others

\* the call runs on: a started call is never suspended (posterior is
\* synchronous), but no draw of the sampler is promised to be accepted
LiveRequests ==
    {r \in Requests : r.n = MaxCount /\ r.k \in {0, MaxCount + 1}}

LiveInvoke ==
    /\ pc = "idle"
    /\ \E r \in LiveRequests : Call(r)

LiveNext ==
    \/ LiveInvoke /\ UNCHANGED others
    \/ Progress
    \/ Redraw

LiveSpec ==
    Init /\ [][LiveNext]_vars /\ WF_vars(Progress) /\ WF_vars(Redraw)

(* ----------------------------- summaryStats ---------------------------- *)
Half == <<1, 2>>

\* x || 0: a falsy number (0, NaN) gives 0
OrZero(x) == IF x = Zero \/ IsNaN(x) THEN Zero ELSE x

\* the cumulative sums data.reduce builds: entry idx is data[idx]/len plus
\* the entry before it (nothing before the first)
RECURSIVE CumAt(_, _)
CumAt(d, idx) ==
    Add(Div(d[idx], Num(Len(d))),
        IF idx = 1 THEN Zero ELSE OrZero(CumAt(d, idx - 1)))

\* cumsum after unshift(0)
Cumsum(d) == <<Zero>> \o [idx \in 1 .. Len(d) |-> CumAt(d, idx)]

\* index ix moved back into its cell by linear interpolation to level q
Interpolate(ix, c, q) ==
    IF ix > 0
    THEN Sub(Num(ix), Div(Sub(c[ix + 1], q), Sub(c[ix + 1], c[ix])))
    ELSE Num(ix)

\* a quantile local after the loop body at index ix: set the first time the
\* cumulative sum exceeds q
Crossing(cur, ix, c, q) ==
    IF cur = MinusOne /\ Gt(c[ix + 1], q) THEN Interpolate(ix, c, q) ELSE cur

\* the test that moves the mode, by a mode that also moves on ties
ModeTestTies(x, m) == Ge(x, m)

\* the test that moves the mode
ModeTest(x, m) == Gt(x, m)

\* the densities summaryStats is given: non-negative multiples of 1/2, of
\* length len, that sum to len
HalfSteps(len) == {<<h, 2>> : h \in {1, 3, 5, 7, 9}} \cup {Num(w) : w \in 0 .. len}
Densities ==
    UNION {{d \in [1 .. len -> {x \in HalfSteps(len) : ~Gt(x, Num(len))}] :
                SumRange(d, 1, len) = Num(len)} : len \in 1 .. MaxLen}

\* alpha = 1 - CI/100 for the credible levels of the form
Alphas == {<<1, 20>>, <<1, 3>>, <<1, 2>>, <<2, 3>>, <<9, 10>>}

\* summaryStats is entered
StatsCall ==
    /\ spc = "ready"
    /\ \E d \in Densities, a \in Alphas :
          /\ data' = d
          /\ alpha' = a
          /\ cumsum' = Cumsum(d)
    /\ lower' = MinusOne /\ upper' = MinusOne /\ median' = MinusOne
    /\ mode' = MinusOne /\ max' = MinusOne
    /\ si' = 0
    /\ spc' = "loop"

\* one pass of the loop over cumsum
StatsStep ==
    /\ spc = "loop"
    /\ si < Len(cumsum)
    /\ lower' = Crossing(lower, si, cumsum, Div(alpha, Num(2)))
    /\ upper' = Crossing(upper, si, cumsum, Sub(One, Div(alpha, Num(2))))
    /\ median' = Crossing(median, si, cumsum, Half)
    /\ IF si < Len(data) /\ ModeTest(data[si + 1], max)
       THEN max' = data[si + 1] /\ mode' = Num(si)
       ELSE UNCHANGED <<max, mode>>
    /\ si' = si + 1
    /\ UNCHANGED <<spc, data, alpha, cumsum>>

\* the loop is left: [lower, upper, median, mode] is returned
StatsReturn ==
    /\ spc = "loop"
    /\ ~(si < Len(cumsum))
    /\ spc' = "done"
    /\ UNCHANGED <<data, alpha, cumsum, si, lower, upper, median, mode, max>>

StatsNext ==
    \/ StatsCall /\ UNCHANGED <<pvars, drawn, wvars>>
    \/ StatsStep /\ UNCHANGED <<pvars, drawn, wvars>>
    \/ StatsReturn /\ UNCHANGED <<pvars, drawn, wvars>>

StatsSpec == Init /\ [][StatsNext]_vars

(* ------------------------- repeated invocations ------------------------ *)
\* requests of the repeated calls: well-formed counts
CallRequests ==
    {r \in Requests : ValidRequest(r) /\ r.n = MaxCount /\ r.k \in {0, 1}}

\* the first call of the page
FirstCall ==
    /\ pc = "idle"
    /\ \E r \in CallRequests : Call(r)
    /\ drawn' = <<>>
    /\ UNCHANGED <<svars, wvars>>

\* a later call: the form is submitted again
Recall ==
    /\ pc = "done"
    /\ \E r \in CallRequests : Call(r)
    /\ drawn' = <<>>
    /\ UNCHANGED <<svars, wvars>>

\* a pass of the rejection loop, the pair drawn recorded
RecordedDraw ==
    /\ Len(drawn) < MaxDraws
    /\ Draw
    /\ drawn' = Append(drawn, <<u', v'>>)
    /\ UNCHANGED <<svars, wvars>>

CallsNext ==
    \/ FirstCall
    \/ Recall
    \/ RecordedDraw
    \/ Progress

CallsSpec == Init /\ [][CallsNext]_vars

(* -------------------- the grid evaluated by workers -------------------- *)
\* the serial grid loop has filled the raw density
GridFilled == pc = "grid" /\ ~GridTest(j, req.M)

\* the grid indices no worker holds and whose slot is not written
Untaken ==
    {jj \in 0 .. req.M :
        jj \notin DOMAIN out /\ \A w \in Workers : work[w].j # jj}

\* worker w begins the loop body for a grid index nobody has taken
ParBegin(w) ==
    /\ GridFilled
    /\ work[w].j = -1
    /\ \E jj \in Untaken :
          LET acc == ResetSum(<<work[w].p_theta, work[w].cp>>)
          IN  work' = [work EXCEPT ![w] =
                  [j |-> jj, ii |-> 0, p_theta |-> acc[1], cp |-> acc[2]]]
    /\ UNCHANGED <<pvars, svars, drawn, out>>

\* worker w adds one sample to the sum of its grid index
ParInner(w) ==
    /\ GridFilled
    /\ work[w].j # -1
    /\ SampleTest(work[w].ii, req.N)
    /\ LET acc == KahanAdd(work[w].p_theta, work[w].cp,
                           Summand(work[w].j, work[w].ii + 1, req, us, vs, duvs))
       IN  work' = [work EXCEPT ![w].p_theta = acc[1], ![w].cp = acc[2],
                                ![w].ii = @ + 1]
    /\ UNCHANGED <<pvars, svars, drawn, out>>

\* worker w is done with its grid index: the sum goes to the slot of the index
ParEnd(w) ==
    /\ GridFilled
    /\ work[w].j # -1
    /\ ~SampleTest(work[w].ii, req.N)
    /\ out' = [jj \in DOMAIN out \cup {work[w].j} |->
                  IF jj = work[w].j THEN work[w].p_theta ELSE out[jj]]
    /\ work' = [work EXCEPT ![w].j = -1]
    /\ UNCHANGED <<pvars, svars, drawn>>

\* the requests whose grid the workers evaluate: one positive among the
\* subjects tested
ParRequests == {r \in CallRequests : r.k = 1}

\* posterior is called, and the workers evaluate the grid of the call
ParInvoke ==
    /\ pc = "idle"
    /\ \E r \in ParRequests : Call(r)

ParNext ==
    \/ ParInvoke /\ UNCHANGED others
    \/ Redraw
    \/ Store /\ UNCHANGED others
    \/ GridBegin /\ UNCHANGED others
    \/ Inner /\ UNCHANGED others
    \/ GridEnd /\ UNCHANGED others
    \/ \E w \in Workers : ParBegin(w)
    \/ \E w \in Workers : ParInner(w)
    \/ \E w \in Workers : ParEnd(w)

ParSpec == Init /\ [][ParNext]_vars

(* ---------------------- posterior as a function ------------------------- *)
\* the compensated sum of grid index jj over the samples 1..s, with its
\* compensation, as the inner loop leaves it
RECURSIVE InnerSum(_, _, _, _, _, _)
InnerSum(jj, s, r, sus, svs, sduvs) ==
    IF s = 0 THEN <<Zero, Zero>>
    ELSE LET prev == InnerSum(jj, s - 1, r, sus, svs, sduvs)
         IN  KahanAdd(prev[1], prev[2], Summand(jj, s, r, sus, svs, sduvs))

\* the raw density the grid loop builds from the sample arrays
RawPdf(r, sus, svs, sduvs) ==
    [jj \in 1 .. (r.M + 1) |-> InnerSum(jj - 1, r.N, r, sus, svs, sduvs)[1]]

\* the compensated sum of the first m raw values, with its compensation
RECURSIVE TotalSum(_, _)
TotalSum(raw, m) ==
    IF m = 0 THEN <<Zero, Zero>>
    ELSE LET prev == TotalSum(raw, m - 1)
         IN  KahanAdd(prev[1], prev[2], raw[m])

\* the pairs of a sequence of draws that leave the rejection loop
Accepted(draws) == SelectSeq(draws, LAMBDA d : ~Rejected(d[1], d[2]))

\* what posterior returns for request r when the sampler returns draws
PosteriorOf(r, draws) ==
    LET acc == Accepted(draws)
        sus == [s \in 1 .. Len(acc) |-> acc[s][1]]
        svs == [s \in 1 .. Len(acc) |-> acc[s][2]]
        sduvs == [s \in 1 .. Len(acc) |-> Duv(acc[s][1], acc[s][2], r.n, r.k)]
        raw == RawPdf(r, sus, svs, sduvs)
    IN  Normalized(raw, TotalSum(raw, Len(raw))[1], r.M)

(* ------------------------------ claims --------------------------------- *)
\* sum of the entries of a sequence of numbers
SumSeq(d) == SumRange(d, 1, Len(d))

\* C1: whenever posterior returns, the returned sequence has exactly M+1
\* entries, whatever N and the sampled values are
C1_LengthIsMPlusOne ==
    pc = "done" => Len(pdf) = req.M + 1

\* a call with M = 0 and one with M = 1 and samples have returned
C1_Witness ==
    /\ pc = "done"
    /\ req.M = 0
    /\ req.N = MaxN
    /\ Len(pdf) = 1

\* C2: for a request with well-formed counts the returned density is
\* normalized: the sum of its M+1 entries divided by M+1 is 1
C2_Normalized ==
    (pc = "done" /\ ValidRequest(req))
        => Div(SumSeq(pdf), Num(req.M + 1)) = One

\* C3: every stored sample satisfies u < v
C3_StoredOrdered ==
    \A s \in 1 .. Len(us) : Lt(us[s], vs[s])

\* the normalization total of a returned density is finite and not zero
WellPosed == IsFinite(total) /\ total # Zero

\* C4: for well-formed counts every Jacobian factor is positive and, when
\* the estimate is well-posed, the divisor is positive and every entry of the
\* returned density is >= 0
C4_NonNegative ==
    ValidRequest(req) =>
        /\ \A s \in 1 .. Len(duvs) : Gt(duvs[s], Zero)
        /\ (pc = "done" /\ WellPosed) =>
              /\ Gt(total, Zero)
              /\ \A jj \in 1 .. Len(pdf) : Ge(pdf[jj], Zero)

\* a density with a positive entry and a zero entry has been returned
C4_Witness ==
    /\ pc = "done"
    /\ ValidRequest(req)
    /\ WellPosed
    /\ req.N = MaxN
    /\ \E jj \in 1 .. Len(pdf) : Gt(pdf[jj], Zero)
    /\ \E jj \in 1 .. Len(pdf) : pdf[jj] = Zero

\* C5: when the normalization total is zero the caller is told
\* IllPosedEstimate, and gets no density (stated for the requests with
\* well-formed counts, N = 0 among them)
C5_ZeroTotalReported ==
    (pc = "done" /\ ValidRequest(req) /\ total = Zero)
        => result = "IllPosedEstimate"

\* C6: a request with malformed counts is rejected with InvalidInput before
\* the first sample is drawn, and no density is returned
C6_InvalidRejected ==
    (pc # "idle" /\ ~ValidRequest(req)) =>
        /\ result = "InvalidInput"
        /\ pc = "done"
        /\ us = <<>>

\* x <= y
Le(x, y) == Ge(y, x)

\* C10: for a non-negative density of length len >= 1 whose entries sum to
\* len and 0 < alpha < 1, summaryStats returns 0 <= lower <= median <= upper
\* <= len, none of them the sentinel -1, and mode the smallest index at which
\* data attains its maximum
C10_SummaryStats ==
    spc = "done" =>
        /\ Le(Zero, lower) /\ Le(lower, median) /\ Le(median, upper)
        /\ Le(upper, Num(Len(data)))
        /\ lower # MinusOne /\ upper # MinusOne /\ median # MinusOne
        /\ \E m \in 1 .. Len(data) :
              /\ mode = Num(m - 1)
              /\ \A x \in 1 .. Len(data) : Le(data[x], data[m])
              /\ \A x \in 1 .. (m - 1) : Lt(data[x], data[m])

\* summaryStats has returned for a density whose maximum is attained twice
\* and whose three quantiles differ
C10_Witness ==
    /\ spc = "done"
    /\ Len(data) = MaxLen
    /\ \E x, y \in 1 .. Len(data) :
          x < y /\ data[x] = data[y] /\ mode = Num(x - 1)
    /\ Lt(lower, median) /\ Lt(median, upper)

\* posterior has returned with exactly N samples stored and exactly M+1
\* grid points evaluated
Finished ==
    /\ pc = "done"
    /\ Len(us) = req.N /\ Len(vs) = req.N /\ Len(duvs) = req.N
    /\ j = req.M + 1
    /\ Len(pdf) = req.M + 1

\* C8: if every rejection loop eventually draws an accepted pair, every call
\* returns after storing N samples and evaluating M+1 grid points; and a call
\* that never returns stays for ever in the rejection loop of one sample index
C8_Termination ==
    /\ WF_vars(AcceptingDraw) => ((pc # "idle") ~> Finished)
    /\ \/ (pc # "idle") ~> Finished
       \/ \E s \in 0 .. MaxN :
             <>[](pc = "sample" /\ i = s /\ Len(us) = s /\ Rejected(u, v))

\* a call that had pairs rejected has returned with the largest N and M
C8_Witness ==
    /\ Finished
    /\ req.N = MaxN
    /\ req.M = MaxM

\* C7: what a call returns is a function of its request and of the values
\* the sampler gave it, whatever calls ran before: any two calls with the
\* same request and the same draws return the same array, entry by entry
C7_Deterministic ==
    pc = "done" => pdf = PosteriorOf(req, drawn)

\* a call after an earlier one has returned a density of finite entries
\* after a rejected draw
C7_Witness ==
    /\ pc = "done"
    /\ earlier
    /\ req.N = MaxN
    /\ Len(drawn) > req.N
    /\ \A jj \in 1 .. Len(pdf) : IsFinite(pdf[jj])

\* the grid loop is running, or has filled the raw density
InGrid == pc \in {"grid", "inner"}

\* C9: in the grid loop the sample arrays have length N and are not
\* modified; the raw value of every grid index evaluated is the sum over the
\* samples started from 0, a function of the index, M, n, k and the arrays;
\* and workers that take the grid indices in any order, each index by one
\* worker, write into every slot the value the serial loop stored there
C9_AnyOrder ==
    /\ [](InGrid =>
            /\ Len(us) = req.N /\ Len(vs) = req.N /\ Len(duvs) = req.N
            /\ \A jj \in 1 .. Len(pdf) :
                  pdf[jj] = RawPdf(req, us, vs, duvs)[jj]
            /\ \A jj \in DOMAIN out : out[jj] = pdf[jj + 1])
    /\ [][InGrid => UNCHANGED <<us, vs, duvs>>]_vars

\* the last slot is written and the first is not, while both workers are in
\* the middle of the sums of the other two indices, for a raw density that
\* is not constant
C9_Witness ==
    /\ GridFilled
    /\ req.N = MaxN
    /\ req.M = MaxM
    /\ req.M \in DOMAIN out
    /\ 0 \notin DOMAIN out
    /\ work["w1"].j > work["w2"].j
    /\ work["w2"].j # -1
    /\ work["w1"].ii > 0
    /\ work["w2"].ii > 0
    /\ IsFinite(out[req.M])
    /\ out[req.M] # pdf[1]

=============================================================================
